---- MODULE Spec2Model ----
(***************************************************************************)
(* A model of ai.py: configuration loading, the Ollama query with its     *)
(* response clean-up, the destructive-command check, the confirmation     *)
(* logic of main() and the command execution.                              *)
(*                                                                         *)
(* Text that the program inspects character by character (the model's     *)
(* response, the suggested command, the answer typed at the prompt) is a   *)
(* sequence of one-character strings, so that strip, split, lower,         *)
(* startswith, slicing and shlex.split are computed as Python computes     *)
(* them.  Configuration values are only copied and compared as a whole,    *)
(* and are plain TLA+ strings.                                             *)
(***************************************************************************)
EXTENDS Integers, Sequences, FiniteSets

VARIABLES
  pc,                    \* where the run is: see the actions below
  argv,                  \* command line: [interactive, yes, model]; model is <<>> or <<value>>
  args,                  \* argparse result: [interactive, yes, model]
  reply,                 \* what the HTTP POST will meet: [kind, body]
  requests,              \* number of HTTP POSTs issued
  command_to_run,        \* result of query_ollama: None or a command
  raised,                \* name of the exception that ended the run, empty if none
  destructive,           \* <<>> until is_destructive has been called, then <<its result>>
  prompts,               \* the input() prompts shown, in order: "warning" or "plain"
  messages,              \* what main() and execute_command reported after the suggestion, in order
  confirm,               \* what input() produced, <<>> until it is called
  execute,               \* main()'s local flag
  executed,              \* the commands handed to execute_command, in order
  exit_status,           \* -1 while running, then the process's exit status
  start_env,             \* the environment the process was started with
  environ,               \* os.environ, restricted to the two recognised variables
  dotenv,                \* the .env file: [exists, vars]
  info_printed,          \* whether load_configuration printed the "Using default settings" note
  OLLAMA_API_URL,        \* module globals set by load_configuration
  OLLAMA_DEFAULT_MODEL,
  CURRENT_OLLAMA_MODEL,
  payload_model,         \* the "model" field of the request payload
  posted_url             \* the URL the request was posted to

vars == << pc, argv, args, reply, requests, command_to_run, raised, destructive,
           prompts, messages, confirm, execute, executed, exit_status, start_env,
           start_env, environ, dotenv, info_printed, OLLAMA_API_URL, OLLAMA_DEFAULT_MODEL,
           CURRENT_OLLAMA_MODEL, payload_model, posted_url >>

(***************************************************************************)
(* Bounds of the model.                                                    *)
(***************************************************************************)
\* Longest text, in pieces of Pieces, given to the clean-up and to is_destructive
\* when they are checked on their own.
MaxPieces == 3
\* Longest model response, in pieces of Pieces, in a whole run of main().
MaxReplyPieces == 2

(***************************************************************************)
(* Python's str operations on sequences of characters.                     *)
(***************************************************************************)
\* The grave accent.  SANY accepts none inside a string literal, so the character
\* has a name here; like every other character it is one element of a text.
Backtick == "GRAVE"

\* Python's None.  No text equals it: None is no character.
None == << "None" >>

UpperCase == << "A", "B", "C", "D", "E", "F", "G", "H", "I", "J", "K", "L", "M",
                "N", "O", "P", "Q", "R", "S", "T", "U", "V", "W", "X", "Y", "Z" >>
LowerCase == << "a", "b", "c", "d", "e", "f", "g", "h", "i", "j", "k", "l", "m",
                "n", "o", "p", "q", "r", "s", "t", "u", "v", "w", "x", "y", "z" >>

LowerChar(c) ==
  IF \E i \in 1..26 : UpperCase[i] = c
  THEN LowerCase[CHOOSE i \in 1..26 : UpperCase[i] = c]
  ELSE c

\* str.lower()
Lower(s) == [i \in 1..Len(s) |-> LowerChar(s[i])]

\* the characters str.strip() removes
IsSpace(c) == c \in {" ", "\t", "\n", "\r"}

\* str.strip(): from the first to the last character that is not white space
Strip(s) ==
  LET kept == {i \in 1..Len(s) : ~IsSpace(s[i])} IN
  IF kept = {} THEN <<>>
  ELSE SubSeq(s, CHOOSE i \in kept : \A j \in kept : i <= j,
                 CHOOSE i \in kept : \A j \in kept : j <= i)

\* str.startswith(p)
StartsWith(s, p) == Len(s) >= Len(p) /\ SubSeq(s, 1, Len(p)) = p

\* str.endswith(p)
EndsWith(s, p) == Len(s) >= Len(p) /\ SubSeq(s, Len(s) - Len(p) + 1, Len(s)) = p

\* p in s
Contains(s, p) ==
  \E i \in 1..(Len(s) - Len(p) + 1) : SubSeq(s, i, i + Len(p) - 1) = p

\* s[a:-b], with a and b within what Python clamps
Slice(s, a, b) == IF a + b >= Len(s) THEN <<>> ELSE SubSeq(s, a + 1, Len(s) - b)

\* s.split('\n'): the lines of s, at least one.  Line k starts after the
\* (k-1)-th line feed and ends before the k-th.
SplitLines(s) ==
  LET feeds == {i \in 1..Len(s) : s[i] = "\n"}
      Feed(k) == IF k = 0 THEN 0
                 ELSE IF k > Cardinality(feeds) THEN Len(s) + 1
                 ELSE CHOOSE i \in feeds : Cardinality({j \in feeds : j < i}) = k - 1
  IN [k \in 1..(Cardinality(feeds) + 1) |->
        IF Feed(k - 1) + 1 > Feed(k) - 1 THEN <<>>
        ELSE SubSeq(s, Feed(k - 1) + 1, Feed(k) - 1)]

(***************************************************************************)
(* is_destructive                                                          *)
(***************************************************************************)
DESTRUCTIVE_COMMANDS ==
  << <<"r", "m">>,
     <<"m", "v">>,
     <<"k", "i", "l", "l">>,
     <<"p", "k", "i", "l", "l">>,
     <<"k", "i", "l", "l", "a", "l", "l">>,
     <<"s", "h", "u", "t", "d", "o", "w", "n">>,
     <<"r", "e", "b", "o", "o", "t">>,
     <<"h", "a", "l", "t">>,
     <<"s", "h", "r", "e", "d">>,
     <<"d", "d">>,
     <<"m", "k", "f", "s">>,
     <<"f", "d", "i", "s", "k">>,
     <<"u", "s", "e", "r", "d", "e", "l">>,
     <<"g", "r", "o", "u", "p", "d", "e", "l">>,
     <<"c", "h", "m", "o", "d">>,
     <<"c", "h", "o", "w", "n">>,
     <<"s", "u", "d", "o">>,
     <<"s", "u">>,
     <<"d", "o", "c", "k", "e", "r", " ", "r", "m">>,
     <<"d", "o", "c", "k", "e", "r", " ", "r", "m", "i">>,
     <<"k", "u", "b", "e", "c", "t", "l", " ", "d", "e", "l", "e", "t", "e">> >>

\* shlex in POSIX mode, as shlex.split sets it up: whitespace_split, no commenters
ShlexWhitespace == {" ", "\t", "\r", "\n"}
ShlexQuotes == {"'", "\""}
ShlexEscape == "\\"
ShlexEscapedQuotes == {"\""}

\* One turn of the loop of shlex.read_token: the reader st meets character c.
\* state, escapedstate, token and quoted are read_token's; state is " " between
\* tokens, "a" inside a word, a quote character inside a quoted part and the
\* escape character after one.  parts collects the tokens returned so far; a
\* token is returned (and token, quoted, escapedstate start afresh) when white
\* space ends it.
ShlexStep(st, c) ==
  CASE st.state \in {" ", "a"} /\ c \in ShlexWhitespace ->
         IF st.token # <<>> \/ st.quoted
         THEN [state |-> " ", escapedstate |-> " ", token |-> <<>>, quoted |-> FALSE,
               parts |-> Append(st.parts, st.token)]
         ELSE [st EXCEPT !.state = " "]
    [] st.state \in {" ", "a"} /\ c = ShlexEscape ->
         [st EXCEPT !.state = c, !.escapedstate = "a"]
    [] st.state \in {" ", "a"} /\ c \in ShlexQuotes -> [st EXCEPT !.state = c]
    [] st.state = " " /\ c \notin ShlexWhitespace \cup ShlexQuotes \cup {ShlexEscape} ->
         [st EXCEPT !.state = "a", !.token = << c >>]
    [] st.state = "a" /\ c \notin ShlexWhitespace \cup ShlexQuotes \cup {ShlexEscape} ->
         [st EXCEPT !.token = Append(st.token, c)]
    [] st.state \in ShlexQuotes /\ c = st.state ->
         [st EXCEPT !.state = "a", !.quoted = TRUE]
    [] st.state \in ShlexQuotes /\ c # st.state /\ c = ShlexEscape
       /\ st.state \in ShlexEscapedQuotes ->
         [st EXCEPT !.escapedstate = st.state, !.state = c, !.quoted = TRUE]
    [] st.state \in ShlexQuotes /\ c # st.state
       /\ ~(c = ShlexEscape /\ st.state \in ShlexEscapedQuotes) ->
         [st EXCEPT !.token = Append(st.token, c), !.quoted = TRUE]
    [] st.state = ShlexEscape ->
         [st EXCEPT !.state = st.escapedstate,
                    !.token = IF st.escapedstate \in ShlexQuotes /\ c # st.state
                                 /\ c # st.escapedstate
                              THEN st.token \o << st.state, c >>
                              ELSE Append(st.token, c)]

\* the reader after the first i characters of s
RECURSIVE ShlexAfter(_, _)
ShlexAfter(s, i) ==
  IF i = 0
  THEN [state |-> " ", escapedstate |-> " ", token |-> <<>>, quoted |-> FALSE,
        parts |-> <<>>]
  ELSE ShlexStep(ShlexAfter(s, i - 1), s[i])

\* shlex.split(s): [ok |-> FALSE, parts |-> <<>>] when the text ends inside a
\* quoted part or after an escape character (ValueError), else the tokens
shlex_split(s) ==
  LET st == ShlexAfter(s, Len(s)) IN
  IF st.state \in ShlexQuotes \/ st.state = ShlexEscape
  THEN [ok |-> FALSE, parts |-> <<>>]
  ELSE [ok |-> TRUE,
        parts |-> IF st.token # <<>> \/ st.quoted THEN Append(st.parts, st.token)
                  ELSE st.parts]

\* first_command == 'sudo' and len(command_parts) > 1
SudoWithArguments(command_parts) ==
  command_parts[1] = <<"s", "u", "d", "o">> /\ Len(command_parts) > 1

\* Variant of MatchesEntry that compares the first token only.
MatchesEntryTokenOnly(actual_command, command, entry) == actual_command = entry

\* the test of the loop over DESTRUCTIVE_COMMANDS (line 169), for one entry
MatchesEntry(actual_command, command, entry) ==
  \/ actual_command = entry
  \/ StartsWith(Strip(command), entry \o << " " >>)

\* what is_destructive returns when shlex.split raises ValueError
OnValueError == TRUE

is_destructive(command) ==
  IF command = <<>> \/ command = None THEN FALSE
  ELSE LET split == shlex_split(command) IN
    IF ~split.ok THEN OnValueError
    ELSE IF split.parts = <<>> THEN FALSE
    ELSE IF SudoWithArguments(split.parts) THEN TRUE
    ELSE \E d \in 1..Len(DESTRUCTIVE_COMMANDS) :
           MatchesEntry(split.parts[1], command, DESTRUCTIVE_COMMANDS[d])

(***************************************************************************)
(* query_ollama                                                            *)
(***************************************************************************)
\* What the POST can meet.  body is the text of the "response" field when kind
\* is "Ok", and <<>> otherwise.
\*   ConnectionError    requests raises ConnectionError
\*   Timeout            requests raises Timeout
\*   HTTPError          raise_for_status() raises for a 4xx/5xx status
\*   JSONDecodeError    response.json() cannot decode the body
\*   NotAnObject        the body is JSON but not an object: data.get does not exist
\*   NoResponseField    a JSON object without "response": data.get gives ""
\*   ResponseNotText    "response" is null, a number, a list or an object
\*   Ok                 a JSON object whose "response" is text
ReplyKinds ==
  { "ConnectionError", "Timeout", "HTTPError", "JSONDecodeError", "NotAnObject",
    "NoResponseField", "ResponseNotText", "Ok" }

\* the prefixes of the lines the clean-up skips
SkippedPrefixes ==
  { <<"h", "e", "r", "e", " ", "i", "s">>,
    <<"t", "h", "e", " ", "c", "o", "m", "m", "a", "n", "d", " ", "i", "s">>,
    <<Backtick>>,
    <<"#">> }

\* the negation of the test of line 116, on a stripped line
SkippedLine(clean_line) ==
  \/ clean_line = <<>>
  \/ \E p \in SkippedPrefixes : StartsWith(Lower(clean_line), p)

\* lines 117-122: the fences taken off the chosen line
Unwrap(clean_line) ==
  IF StartsWith(clean_line, <<Backtick, Backtick, Backtick>>) /\ EndsWith(clean_line, <<Backtick, Backtick, Backtick>>)
  THEN LET inner == Strip(Slice(clean_line, 3, 3)) IN
       IF StartsWith(Lower(inner), <<"b", "a", "s", "h">>)
       THEN Strip(SubSeq(inner, 5, Len(inner)))
       ELSE inner
  ELSE IF StartsWith(clean_line, <<Backtick>>) /\ EndsWith(clean_line, <<Backtick>>)
  THEN Strip(Slice(clean_line, 1, 1))
  ELSE clean_line

\* the loop of lines 113-124: potential_command
RECURSIVE PotentialCommand(_)
PotentialCommand(lines) ==
  IF lines = <<>> THEN <<>>
  ELSE LET clean_line == Strip(Head(lines)) IN
       IF ~SkippedLine(clean_line) THEN Unwrap(clean_line)
       ELSE PotentialCommand(Tail(lines))

\* Variant of Rejected that looks for ERROR: at the start only.
RejectedOnlyAtStart(potential_command) ==
  potential_command = <<>> \/ StartsWith(potential_command, <<"E", "R", "R", "O", "R", ":">>)

\* the test of line 126
Rejected(potential_command) ==
  potential_command = <<>> \/ Contains(potential_command, <<"E", "R", "R", "O", "R", ":">>)

\* lines 109-131: from the text of the "response" field to the returned value
Normalize(response) ==
  LET command == Strip(response)
      potential_command == PotentialCommand(SplitLines(command))
  IN IF Rejected(potential_command) THEN None ELSE potential_command

\* The outcome of query_ollama for a reply: the exception that leaves it (the
\* empty string if none) and the value it returns
query_ollama(r) ==
  CASE r.kind \in {"ConnectionError", "Timeout", "HTTPError", "JSONDecodeError"} ->
         [exc |-> "", ret |-> None]
    [] r.kind \in {"NotAnObject", "ResponseNotText"} ->
         [exc |-> "AttributeError", ret |-> None]
    [] r.kind = "NoResponseField" -> [exc |-> "", ret |-> Normalize(<<>>)]
    [] r.kind = "Ok" -> [exc |-> "", ret |-> Normalize(r.body)]

(***************************************************************************)
(* load_configuration                                                      *)
(***************************************************************************)
DEFAULT_OLLAMA_API_URL == "http://localhost:11434/api/generate"
DEFAULT_OLLAMA_MODEL == "gemma3:1b"

ConfigVars == {"OLLAMA_API_URL", "OLLAMA_DEFAULT_MODEL"}

\* Variant of load_dotenv with override=True: the file wins.
load_dotenv_override(env, file_vars) ==
  [v \in DOMAIN env \cup DOMAIN file_vars |->
     IF v \in DOMAIN file_vars THEN file_vars[v] ELSE env[v]]

\* load_dotenv(dotenv_path=...): override is left at its default, False, so a
\* variable already in the environment keeps its value
load_dotenv(env, file_vars) ==
  [v \in DOMAIN env \cup DOMAIN file_vars |->
     IF v \in DOMAIN env THEN env[v] ELSE file_vars[v]]

\* os.getenv(name, default)
getenv(env, name, default) == IF name \in DOMAIN env THEN env[name] ELSE default

\* load_configuration: the environment it leaves, the pair it returns and
\* whether it prints the note about default settings
load_configuration(env, file) ==
  LET loaded == IF file.exists THEN load_dotenv(env, file.vars) ELSE env
      api_url == getenv(loaded, "OLLAMA_API_URL", DEFAULT_OLLAMA_API_URL)
      default_model == getenv(loaded, "OLLAMA_DEFAULT_MODEL", DEFAULT_OLLAMA_MODEL)
      using_defaults == api_url = DEFAULT_OLLAMA_API_URL
                        /\ default_model = DEFAULT_OLLAMA_MODEL
  IN [environ |-> loaded, api_url |-> api_url, default_model |-> default_model,
      info |-> ~file.exists /\ using_defaults]

(***************************************************************************)
(* main                                                                    *)
(***************************************************************************)
\* Variant of NotCommand that lets every result through.
NotCommandNever(command) == FALSE

\* if not command_to_run (line 216)
NotCommand(command) == command = None \/ command = <<>>

\* the branch of lines 224-254 taken, from the two flags and is_destructive's
\* result (read only when interactive):
\*   "prompt_warning"  lines 227-236   "auto_warning"  lines 237-239
\*   "prompt_plain"    lines 240-249   "auto"          lines 250-252
\*   "not_executed"    lines 253-254
\* Variant in which -y without -i is enough to get past line 224.
ConfirmationBranchYesAlone(interactive, yes, is_destr) ==
  IF interactive \/ yes
  THEN IF is_destr /\ ~yes THEN "prompt_warning"
       ELSE IF is_destr /\ yes THEN "auto_warning"
       ELSE IF ~yes THEN "prompt_plain"
       ELSE "auto"
  ELSE "not_executed"

\* Variant in which -y is ignored: every interactive run prompts.
ConfirmationBranchYesIgnored(interactive, yes, is_destr) ==
  IF interactive
  THEN IF is_destr THEN "prompt_warning" ELSE "prompt_plain"
  ELSE "not_executed"

\* the branch main() takes
ConfirmationBranch(interactive, yes, is_destr) ==
  IF interactive
  THEN IF is_destr /\ ~yes THEN "prompt_warning"
       ELSE IF is_destr /\ yes THEN "auto_warning"
       ELSE IF ~yes THEN "prompt_plain"
       ELSE "auto"
  ELSE "not_executed"

\* Variant of Accepted without lower().
AcceptedCaseSensitive(text) == text = <<"y">>

\* confirm.lower() == 'y'
Accepted(text) == Lower(text) = <<"y">>

\* execute_command: what leaves it for each way subprocess.run can end.
\*   "zero"  the command ran and returned 0      "nonzero"  it returned another code
\*   "launch_failure"  subprocess.run raised an Exception
ExecOutcomes == {"zero", "nonzero", "launch_failure"}

\* Variant of execute_command without the except clause of line 190.
execute_command_uncaught(outcome) == IF outcome = "launch_failure" THEN "OSError" ELSE ""

\* The exception that leaves execute_command: none, since check=False makes a
\* non-zero return code no error and line 190 catches every Exception.
execute_command(outcome) == ""

\* the exit status of the interpreter when main() ends by an uncaught exception
\* (1) or by returning (0)
InterpreterExit(exc) == IF exc # "" THEN 1 ELSE 0

(***************************************************************************)
(* The inputs the model draws from.                                        *)
(***************************************************************************)
\* The pieces the texts are put together from: commands of the table and one
\* outside it, the characters shlex treats specially, line ends, and what the
\* clean-up looks for.
Pieces ==
  { <<"l", "s">>,
    <<"r", "m">>,
    <<"s", "u", "d", "o">>,
    <<"d", "o", "c", "k", "e", "r", " ", "r", "m">>,
    <<" ">>,
    <<"\n">>,
    <<"\"">>,
    <<"'">>,
    <<"\\">>,
    <<"E", "R", "R", "O", "R", ":">>,
    <<"#">>,
    <<"H", "e", "r", "e", " ", "i", "s">>,
    <<Backtick, Backtick, Backtick, "b", "a", "s", "h", " ">>,
    <<Backtick, Backtick, Backtick>>,
    <<Backtick>> }

\* the texts of at most n pieces
RECURSIVE Texts(_)
Texts(n) ==
  IF n = 0 THEN { <<>> }
  ELSE LET shorter == Texts(n - 1) IN
       shorter \cup { t \o p : t \in shorter, p \in Pieces }

\* the replies with a text of at most n pieces
Replies(n) ==
  { [kind |-> k, body |-> <<>>] : k \in ReplyKinds \ {"Ok"} }
    \cup { [kind |-> "Ok", body |-> t] : t \in Texts(n) }

\* what input() can produce: a line (without its line end), end of input or an
\* interrupt
Answers ==
  { [kind |-> "line", text |-> t] :
      t \in { <<"y">>, <<"Y">>, <<"n">>, <<>>, <<"y", "e", "s">>, <<" ", "y">> } }
    \cup { [kind |-> "EOFError", text |-> <<>>],
           [kind |-> "KeyboardInterrupt", text |-> <<>>] }

\* the values a configuration variable is given, besides its script default
ConfigValues == { "", "a", "b" }
ValuesOf(name) ==
  ConfigValues \cup { IF name = "OLLAMA_API_URL" THEN DEFAULT_OLLAMA_API_URL
                      ELSE DEFAULT_OLLAMA_MODEL }

\* the settings of some of the two variables
Settings ==
  UNION { { f \in [D -> ConfigValues \cup {DEFAULT_OLLAMA_API_URL, DEFAULT_OLLAMA_MODEL}] :
              \A v \in D : f[v] \in ValuesOf(v) } : D \in SUBSET ConfigVars }

NoSettings == [v \in {} |-> ""]

(***************************************************************************)
(* The run: module import, then main().                                    *)
(***************************************************************************)
\* what every run starts from, whatever the inputs
Fresh ==
  /\ args = [interactive |-> FALSE, yes |-> FALSE, model |-> ""]
  /\ requests = 0
  /\ command_to_run = None
  /\ raised = ""
  /\ destructive = <<>>
  /\ prompts = <<>>
  /\ messages = <<>>
  /\ confirm = <<>>
  /\ execute = FALSE
  /\ executed = <<>>
  /\ exit_status = -1
  /\ payload_model = ""
  /\ posted_url = ""

\* the module globals as lines 50 and 53 leave them
Imported(env, file) ==
  LET cfg == load_configuration(env, file) IN
  /\ start_env = env
  /\ environ = cfg.environ
  /\ info_printed = cfg.info
  /\ OLLAMA_API_URL = cfg.api_url
  /\ OLLAMA_DEFAULT_MODEL = cfg.default_model
  /\ CURRENT_OLLAMA_MODEL = cfg.default_model

\* A run of main() with nothing configured: the module is imported, the command
\* line and the reply the request will meet are any.
Init ==
  /\ pc = "main"
  /\ argv \in [interactive : BOOLEAN, yes : BOOLEAN, model : { <<>> }]
  /\ reply \in Replies(MaxReplyPieces)
  /\ dotenv = [exists |-> FALSE, vars |-> NoSettings]
  /\ Imported(NoSettings, dotenv)
  /\ Fresh

\* lines 50 and 53, at import
LoadConfiguration ==
  /\ pc = "import"
  /\ LET cfg == load_configuration(environ, dotenv) IN
     /\ environ' = cfg.environ
     /\ info_printed' = cfg.info
     /\ OLLAMA_API_URL' = cfg.api_url
     /\ OLLAMA_DEFAULT_MODEL' = cfg.default_model
     /\ CURRENT_OLLAMA_MODEL' = cfg.default_model
  /\ pc' = "main"
  /\ UNCHANGED << argv, args, reply, requests, command_to_run, raised, destructive,
                  prompts, messages, confirm, execute, executed, exit_status,
                  start_env, dotenv, payload_model, posted_url >>

\* main, lines 197-211: the arguments are parsed with the configured model as the
\* default of --model, and the global is set
ParseArgs ==
  /\ pc = "main"
  /\ args' = [interactive |-> argv.interactive, yes |-> argv.yes,
              model |-> IF argv.model = <<>> THEN OLLAMA_DEFAULT_MODEL
                        ELSE argv.model[1]]
  /\ CURRENT_OLLAMA_MODEL' = args'.model
  /\ pc' = "query"
  /\ UNCHANGED << argv, reply, requests, command_to_run, raised, destructive,
                  prompts, messages, confirm, execute, executed, exit_status,
                  start_env, environ, dotenv, info_printed, OLLAMA_API_URL,
                  OLLAMA_DEFAULT_MODEL, payload_model, posted_url >>

\* main, lines 214-219: the one call of query_ollama, which posts once; the run
\* ends with status 1 when it returns nothing, and by the exception when it raises
QueryOllama ==
  /\ pc = "query"
  /\ requests' = requests + 1
  /\ payload_model' = CURRENT_OLLAMA_MODEL
  /\ posted_url' = OLLAMA_API_URL
  /\ LET out == query_ollama(reply) IN
     IF out.exc # ""
     THEN /\ raised' = out.exc
          /\ exit_status' = InterpreterExit(out.exc)
          /\ pc' = "exited"
          /\ UNCHANGED command_to_run
     ELSE /\ command_to_run' = out.ret
          /\ raised' = raised
          /\ IF NotCommand(out.ret)
             THEN exit_status' = 1 /\ pc' = "exited"
             ELSE exit_status' = exit_status /\ pc' = "confirm"
  /\ UNCHANGED << argv, args, reply, destructive, prompts, messages, confirm,
                  execute, executed, start_env, environ, dotenv, info_printed,
                  OLLAMA_API_URL, OLLAMA_DEFAULT_MODEL, CURRENT_OLLAMA_MODEL >>

\* main, lines 221-254 up to the call of input(): is_destructive is called in
\* interactive mode only; a prompt is shown, or execute is set, or the note that
\* -i is needed is printed
Confirmation ==
  /\ pc = "confirm"
  /\ LET is_destr == args.interactive /\ is_destructive(command_to_run)
         branch == ConfirmationBranch(args.interactive, args.yes, is_destr)
     IN /\ destructive' = IF args.interactive THEN << is_destr >> ELSE destructive
        /\ prompts' = CASE branch = "prompt_warning" -> Append(prompts, "warning")
                        [] branch = "prompt_plain" -> Append(prompts, "plain")
                        [] OTHER -> prompts
        /\ messages' = CASE branch = "auto_warning" -> Append(messages, "warning_yes")
                         [] branch = "not_executed" -> Append(messages, "not_executed")
                         [] OTHER -> messages
        /\ execute' = (branch \in {"auto_warning", "auto"})
        /\ pc' = IF branch \in {"prompt_warning", "prompt_plain"} THEN "input"
                 ELSE "run"
  /\ UNCHANGED << argv, args, reply, requests, command_to_run, raised, confirm,
                  executed, exit_status, start_env, environ, dotenv, info_printed,
                  OLLAMA_API_URL, OLLAMA_DEFAULT_MODEL, CURRENT_OLLAMA_MODEL,
                  payload_model, posted_url >>

\* main, lines 229-236 and 242-249: input() returns a line or raises
Input ==
  /\ pc = "input"
  /\ \E answer \in Answers :
       /\ confirm' = << answer >>
       /\ IF answer.kind = "line"
          THEN /\ execute' = Accepted(answer.text)
               /\ messages' = IF Accepted(answer.text) THEN messages
                              ELSE Append(messages, "cancelled_by_user")
               /\ pc' = "run"
               /\ UNCHANGED exit_status
          ELSE /\ messages' = Append(messages, "cancelled")
               /\ exit_status' = 0
               /\ pc' = "exited"
               /\ UNCHANGED execute
  /\ UNCHANGED << argv, args, reply, requests, command_to_run, raised, destructive,
                  prompts, executed, start_env, environ, dotenv, info_printed,
                  OLLAMA_API_URL, OLLAMA_DEFAULT_MODEL, CURRENT_OLLAMA_MODEL,
                  payload_model, posted_url >>

\* main, lines 256-257, with execute_command, and the return of main()
Execute ==
  /\ pc = "run"
  /\ IF execute
     THEN \E outcome \in ExecOutcomes :
            /\ executed' = Append(executed, command_to_run)
            /\ messages' = CASE outcome = "nonzero" -> Append(messages, "error_code")
                              [] outcome = "launch_failure" ->
                                   Append(messages, "execute_error")
                              [] OTHER -> messages
            /\ raised' = execute_command(outcome)
            /\ exit_status' = InterpreterExit(execute_command(outcome))
     ELSE /\ exit_status' = InterpreterExit("")
          /\ UNCHANGED << executed, raised, messages >>
  /\ pc' = "exited"
  /\ UNCHANGED << argv, args, reply, requests, command_to_run, destructive,
                  prompts, confirm, execute, start_env, environ,
                  dotenv, info_printed, OLLAMA_API_URL, OLLAMA_DEFAULT_MODEL,
                  CURRENT_OLLAMA_MODEL, payload_model, posted_url >>

Next == ParseArgs \/ QueryOllama \/ Confirmation \/ Input \/ Execute

Spec == Init /\ [][Next]_vars

(***************************************************************************)
(* Configuration: import and main() up to the request, for every setting   *)
(* of the environment, the .env file and --model.                          *)
(***************************************************************************)
InitConfig ==
  /\ pc = "import"
  /\ argv \in [interactive : {FALSE}, yes : {FALSE},
               model : { <<>> } \cup { << m >> : m \in ValuesOf("OLLAMA_DEFAULT_MODEL") }]
  /\ reply = [kind |-> "Ok", body |-> <<"l", "s">>]
  /\ start_env \in Settings
  /\ environ = start_env
  /\ dotenv \in { [exists |-> FALSE, vars |-> NoSettings] }
                  \cup { [exists |-> TRUE, vars |-> f] : f \in Settings }
  /\ info_printed = FALSE
  /\ OLLAMA_API_URL = ""
  /\ OLLAMA_DEFAULT_MODEL = ""
  /\ CURRENT_OLLAMA_MODEL = ""
  /\ Fresh

NextConfig == LoadConfiguration \/ ParseArgs \/ QueryOllama

SpecConfig == InitConfig /\ [][NextConfig]_vars

(***************************************************************************)
(* query_ollama on its own, for every response text.                       *)
(***************************************************************************)
InitNormalize ==
  /\ pc = "query"
  /\ argv = [interactive |-> FALSE, yes |-> FALSE, model |-> <<>>]
  /\ reply \in { r \in Replies(MaxPieces) : r.kind = "Ok" }
  /\ dotenv = [exists |-> FALSE, vars |-> NoSettings]
  /\ Imported(NoSettings, dotenv)
  /\ Fresh

NextNormalize == QueryOllama

SpecNormalize == InitNormalize /\ [][NextNormalize]_vars

(***************************************************************************)
(* is_destructive on its own, for every command text.                      *)
(***************************************************************************)
InitClassify ==
  /\ pc = "classify"
  /\ argv = [interactive |-> TRUE, yes |-> FALSE, model |-> <<>>]
  /\ reply = [kind |-> "Ok", body |-> <<>>]
  /\ dotenv = [exists |-> FALSE, vars |-> NoSettings]
  /\ Imported(NoSettings, dotenv)
  /\ args = [interactive |-> TRUE, yes |-> FALSE, model |-> ""]
  /\ requests = 0
  /\ command_to_run \in Texts(MaxPieces)
  /\ raised = ""
  /\ destructive = <<>>
  /\ prompts = <<>>
  /\ messages = <<>>
  /\ confirm = <<>>
  /\ execute = FALSE
  /\ executed = <<>>
  /\ exit_status = -1
  /\ payload_model = ""
  /\ posted_url = ""

\* destructive = is_destructive(command_to_run), line 225
Classify ==
  /\ pc = "classify"
  /\ destructive' = << is_destructive(command_to_run) >>
  /\ pc' = "classified"
  /\ UNCHANGED << argv, args, reply, requests, command_to_run, raised, prompts,
                  messages, confirm, execute, executed, exit_status, start_env,
                  environ, dotenv, info_printed, OLLAMA_API_URL, OLLAMA_DEFAULT_MODEL,
                  CURRENT_OLLAMA_MODEL, payload_model, posted_url >>

NextClassify == Classify

SpecClassify == InitClassify /\ [][NextClassify]_vars

(***************************************************************************)
(* The claims.                                                             *)
(***************************************************************************)

\* C1 (under Spec): once the request has been made and the inference stage gave
\* no usable command - the reply is a connection failure, a timeout, an HTTP error
\* status, an undecodable or misshapen payload, or its text is empty or holds the
\* error sentinel, so that query_ollama returned nothing - execute_command is never
\* called and no prompt is shown, whatever --interactive and --yes are.
C1_FailedInferenceNeverExecutes ==
  (requests > 0 /\ (reply.kind # "Ok" \/ command_to_run = None))
    => (executed = <<>> /\ prompts = <<>> /\ confirm = <<>> /\ pc = "exited")

\* C1, reached: a reply whose text holds the error sentinel, with -i and -y both
\* given, ends the run with nothing executed.
C1_Witness ==
  /\ pc = "exited"
  /\ reply.kind = "Ok"
  /\ Contains(reply.body, <<"E", "R", "R", "O", "R", ":">>)
  /\ command_to_run = None
  /\ argv.interactive /\ argv.yes
  /\ executed = <<>>

\* C2 (under Spec): without --interactive, for every generated command and either
\* value of --yes, no prompt is shown, execute_command is never called,
\* is_destructive is not consulted, and the run ends cancelled: the note that -i
\* is needed is its only report and its exit status is 0.
C2_NotInteractiveAlwaysCancelled ==
  (~argv.interactive /\ command_to_run # None)
    => /\ prompts = <<>>
       /\ confirm = <<>>
       /\ executed = <<>>
       /\ destructive = <<>>
       /\ ~execute
       /\ pc \in {"run", "exited"} => messages = << "not_executed" >>
       /\ pc = "exited" => exit_status = 0

\* C2, reached: a destructive command with -y but without -i, the run over.
C2_Witness ==
  /\ pc = "exited"
  /\ ~argv.interactive /\ argv.yes
  /\ command_to_run # None
  /\ is_destructive(command_to_run)
  /\ executed = <<>>

\* C3 (under Spec): with --interactive and without --yes, once a command was
\* generated exactly one prompt is shown, the warning one when the command is
\* classified destructive and the plain one otherwise; execute_command is called
\* (once, with the suggested command) if and only if the answer is y or Y; any
\* other line, end of input or an interrupt leaves it uncalled.
C3_PromptDecides ==
  (argv.interactive /\ ~argv.yes /\ command_to_run # None)
    => LET said_yes == /\ confirm # <<>>
                       /\ confirm[1].kind = "line"
                       /\ confirm[1].text \in { <<"y">>, <<"Y">> }
       IN /\ Len(prompts) <= 1 /\ Len(confirm) <= 1
          /\ pc \in {"input", "run", "exited"} =>
               prompts = << IF is_destructive(command_to_run) THEN "warning"
                            ELSE "plain" >>
          /\ pc \in {"run", "exited"} => Len(confirm) = 1
          /\ executed \in { <<>>, << command_to_run >> }
          /\ executed # <<>> => said_yes
          /\ pc = "exited" => (executed = << command_to_run >> <=> said_yes)

\* C3, reached: the warning prompt answered Y, and the command executed.
C3_Witness ==
  /\ pc = "exited"
  /\ argv.interactive /\ ~argv.yes
  /\ prompts = << "warning" >>
  /\ confirm = << [kind |-> "line", text |-> <<"Y">>] >>
  /\ executed = << command_to_run >>

\* C4 (under Spec): with --interactive and --yes and a generated command, no
\* prompt is ever shown and input() is never called, the run ends with
\* execute_command called exactly once with the suggested command, and the
\* warning about executing without confirmation is printed exactly when the
\* command is classified destructive.
C4_AutoConfirmExecutes ==
  (argv.interactive /\ argv.yes /\ command_to_run # None)
    => /\ prompts = <<>>
       /\ confirm = <<>>
       /\ pc # "input"
       /\ executed \in { <<>>, << command_to_run >> }
       /\ pc = "exited" => executed = << command_to_run >>
       /\ pc = "run" =>
            messages = IF is_destructive(command_to_run) THEN << "warning_yes" >>
                       ELSE <<>>

\* C4, reached: a destructive command executed without a prompt, after the warning.
C4_Witness ==
  /\ pc = "exited"
  /\ argv.interactive /\ argv.yes
  /\ is_destructive(command_to_run)
  /\ prompts = <<>>
  /\ messages[1] = "warning_yes"
  /\ executed = << command_to_run >>

\* C5 (under SpecClassify): is_destructive(command) is true exactly when
\* shlex.split fails on the command; or its first token is sudo and another token
\* follows; or its first token is an entry of DESTRUCTIVE_COMMANDS; or the
\* stripped command starts with an entry followed by a space.  Every other
\* command, the empty one included, is not destructive.
C5_DestructiveExactly ==
  pc = "classified" =>
    LET split == shlex_split(command_to_run)
        entries == { DESTRUCTIVE_COMMANDS[d] : d \in 1..Len(DESTRUCTIVE_COMMANDS) }
        claimed ==
          \/ ~split.ok
          \/ /\ split.ok
             /\ Len(split.parts) > 1
             /\ split.parts[1] = <<"s", "u", "d", "o">>
          \/ /\ split.ok
             /\ split.parts # <<>>
             /\ split.parts[1] \in entries
          \/ \E e \in entries : StartsWith(Strip(command_to_run), e \o << " " >>)
    IN destructive = << claimed >>

\* C5, reached: a command found destructive only by its leading compound entry
\* (its first token is no entry and is not sudo), and shlex.split succeeds.
C5_Witness ==
  /\ pc = "classified"
  /\ destructive = << TRUE >>
  /\ shlex_split(command_to_run).ok
  /\ StartsWith(command_to_run, <<"d", "o", "c", "k", "e", "r", " ", "r", "m", " ">>)
  /\ shlex_split(command_to_run).parts[1] = <<"d", "o", "c", "k", "e", "r">>

\* C6 (under Spec), the claim as stated: after the request, for each failure of
\* the inference stage - connection failure, timeout, HTTP error status, a payload
\* that cannot be decoded, that is no JSON object, or whose response field is
\* missing or not text - query_ollama has returned nothing, without raising, and
\* exactly one request was made.
C6_FailuresReturnAbsent ==
  (requests > 0 /\ reply.kind # "Ok")
    => (command_to_run = None /\ raised = "" /\ requests = 1)

\* C7 (under SpecNormalize), the claim as stated: a response text that holds
\* ERROR: anywhere gives no command.
C7_AnyErrorTokenRejected ==
  (pc # "query" /\ Contains(reply.body, <<"E", "R", "R", "O", "R", ":">>))
    => command_to_run = None

\* C7, amended (under SpecNormalize): when the first line of the stripped response
\* that is neither blank nor starts, in any letter case, with "here is", "the
\* command is", a grave accent or "#" holds ERROR:, query_ollama returns nothing,
\* main() stops with status 1 and nothing is suggested or executed.
C7_ErrorInChosenLineRejected ==
  pc # "query" =>
    LET lines == SplitLines(Strip(reply.body))
        Chosen(k) ==
          LET line == Strip(lines[k]) IN
          /\ line # <<>>
          /\ ~StartsWith(Lower(line), <<"h", "e", "r", "e", " ", "i", "s">>)
          /\ ~StartsWith(Lower(line),
               <<"t", "h", "e", " ", "c", "o", "m", "m", "a", "n", "d", " ", "i", "s">>)
          /\ line[1] # Backtick
          /\ line[1] # "#"
        first == { k \in 1..Len(lines) : Chosen(k) /\ \A j \in 1..(k - 1) : ~Chosen(j) }
    IN (\E k \in first : Contains(lines[k], <<"E", "R", "R", "O", "R", ":">>))
         => (command_to_run = None /\ pc = "exited" /\ exit_status = 1
             /\ executed = <<>>)

\* C7, reached: the first line is skipped and the chosen one, the second, holds
\* ERROR:; nothing is returned.
C7_Witness ==
  /\ pc = "exited"
  /\ command_to_run = None
  /\ LET lines == SplitLines(Strip(reply.body)) IN
     /\ Len(lines) = 2
     /\ lines[1] = << "#" >>
     /\ lines[2] = <<"E", "R", "R", "O", "R", ":">>

\* C8 (under SpecNormalize), the claim as stated: when the first non-empty line
\* of the response is a command between a triple grave accent with the tag bash
\* and a closing triple grave accent, query_ollama returns the command inside,
\* without fence and tag.
C8_BashFenceStripped ==
  pc # "query" =>
    LET lines == SplitLines(Strip(reply.body))
        line == Strip(lines[1])
        inner == Strip(SubSeq(line, 8, Len(line) - 3))
    IN ( /\ Len(line) >= 10
         /\ StartsWith(line, <<Backtick, Backtick, Backtick, "b", "a", "s", "h">>)
         /\ EndsWith(line, <<Backtick, Backtick, Backtick>>)
         /\ inner # <<>>
         /\ \A i \in 1..Len(inner) : inner[i] # Backtick
         /\ ~Contains(inner, <<"E", "R", "R", "O", "R", ":">>) )
       => command_to_run = inner

\* C9 (under Spec): a run that ends has exit status 1 if no usable command was
\* generated and 0 otherwise: not interactive, declined, interrupted or at end of
\* input at the prompt, or executed, also when the command returned an error code
\* or could not be launched.
C9_ExitStatus ==
  pc = "exited" =>
    /\ exit_status \in {0, 1}
    /\ exit_status = 1 <=> command_to_run = None
    /\ executed # <<>> => exit_status = 0
    /\ confirm # <<>> => exit_status = 0
    /\ (command_to_run # None /\ ~argv.interactive) => exit_status = 0

\* C9, reached: the command could not be launched and the run ends with status 0.
C9_Witness ==
  /\ pc = "exited"
  /\ executed = << command_to_run >>
  /\ messages # <<>>
  /\ messages[Len(messages)] = "execute_error"
  /\ exit_status = 0

\* C10 (under SpecConfig): after import, each setting is the value the process
\* environment started with, else the value of the .env file, else the script
\* default; variables set in the starting environment keep their values; and
\* the request goes to that URL and names the --model value when given, else
\* that default model.
C10_ConfigPrecedence ==
  LET Resolved(name, default) ==
        IF name \in DOMAIN start_env THEN start_env[name]
        ELSE IF dotenv.exists /\ name \in DOMAIN dotenv.vars THEN dotenv.vars[name]
        ELSE default
      url == Resolved("OLLAMA_API_URL", DEFAULT_OLLAMA_API_URL)
      model == Resolved("OLLAMA_DEFAULT_MODEL", DEFAULT_OLLAMA_MODEL)
  IN /\ pc # "import" =>
          /\ \A v \in DOMAIN start_env : v \in DOMAIN environ /\ environ[v] = start_env[v]
          /\ OLLAMA_API_URL = url
          /\ OLLAMA_DEFAULT_MODEL = model
     /\ requests > 0 =>
          /\ posted_url = url
          /\ payload_model = IF argv.model # <<>> THEN argv.model[1] ELSE model

\* C10, reached: the model is set in the environment and, differently, in the
\* .env file, --model is not given, and the request names the environment's.
C10_Witness ==
  /\ requests > 0
  /\ argv.model = <<>>
  /\ "OLLAMA_DEFAULT_MODEL" \in DOMAIN start_env
  /\ dotenv.exists
  /\ "OLLAMA_DEFAULT_MODEL" \in DOMAIN dotenv.vars
  /\ dotenv.vars["OLLAMA_DEFAULT_MODEL"] # start_env["OLLAMA_DEFAULT_MODEL"]
  /\ payload_model = start_env["OLLAMA_DEFAULT_MODEL"]
  /\ "OLLAMA_API_URL" \notin DOMAIN start_env
  /\ "OLLAMA_API_URL" \notin DOMAIN dotenv.vars
  /\ posted_url = DEFAULT_OLLAMA_API_URL

====
